---- MODULE Spec2Model ----
(***************************************************************************)
(* bzs.sqlfs: the permission-safe, serialized facade of the database-      *)
(* backed filesystem (src/bzs/sqlfs/__init__.py), together with the Tree   *)
(* Engine and the Permission Engine it delegates to.                       *)
(*                                                                         *)
(* The facade functions are modelled from their code.  The engines         *)
(* (file_system.py, file_system_permissions.py, file_stream.py) are not    *)
(* part of the source tree at hand; their operators below follow the       *)
(* written specification of the system and are marked as such.             *)
(***************************************************************************)
EXTENDS Integers, Sequences, FiniteSets, TLC

\* ------------------------------------------------------------------ bounds
MaxNodes == 6          \* node ids are 0 .. MaxNodes-1
MaxCalls == 2          \* facade calls made in one behaviour
MaxPathLen == 4        \* characters of a path given to get_file_name

\* ------------------------------------------------------------ value spaces
Threads == {"t1", "t2"}                \* concurrent callers of the facade
None    == "None"                      \* Python's None (absent user, no result)
Users   == {"u1"}                      \* user.handle of the user objects passed
Handles == Users \cup {"u2", "public"} \* owner handles
Root    == 0
NoNode  == -1
Ids     == 0 .. (MaxNodes - 1)
Free    == "free"                      \* FilesystemLock not held

\* A permission triple ' r w x ' (read, write, effect sub_files).
Perm(r, w, x) == [r |-> r, w |-> w, x |-> x]
NoPerm   == Perm(FALSE, FALSE, FALSE)
FullPerm == Perm(TRUE, TRUE, TRUE)
PermInputs == {FullPerm, Perm(FALSE, TRUE, TRUE), Perm(TRUE, FALSE, TRUE),
               Perm(TRUE, TRUE, FALSE)}

\* A file name: a base label and the number of the copy that bears it.
Name(base, n) == [base |-> base, n |-> n]
NameInputs == {Name("a", 0), Name("c", 0)}
NoName == Name("", 0)

VARIABLES
    Filesystem,        \* the node graph owned by the Tree Engine
    FilesystemLock,    \* the thread holding threading.Lock(), or Free
    pc,                \* per thread: where it stands in its facade call
    frame,             \* per thread: the call it is executing (arguments)
    ret,               \* per thread: what its call returned
    pre,               \* per thread: the tree as its permission checks read it
    calls              \* number of facade calls made so far

vars == <<Filesystem, FilesystemLock, pc, frame, ret, pre, calls>>

\* --------------------------------------------------------------- the tree
Nodes(fs) == DOMAIN fs.parent

Children(fs, n) == {m \in Nodes(fs) : fs.parent[m] = n}

RECURSIVE Up(_, _, _)
Up(fs, n, k) ==
    IF k = 0 \/ n \notin Nodes(fs) THEN {}
    ELSE IF fs.parent[n] \notin Nodes(fs) THEN {}
    ELSE {fs.parent[n]} \cup Up(fs, fs.parent[n], k - 1)

Ancestors(fs, n) == Up(fs, n, Cardinality(Nodes(fs)))

Subtree(fs, n) == {m \in Nodes(fs) : m = n \/ n \in Ancestors(fs, m)}

Rank(x, S) == Cardinality({y \in S : y < x})

FreeIds(fs) == Ids \ Nodes(fs)

\* The name given to an entry hung under `parent`: its own name, or the
\* first later copy number of it that no entry under `parent` bears.
FreshName(fs, parent, nm) ==
    LET taken == {fs.name[m] : m \in Children(fs, parent)}
        k == CHOOSE i \in 0 .. Cardinality(taken) :
                 /\ Name(nm.base, nm.n + i) \notin taken
                 /\ \A j \in 0 .. (i - 1) : Name(nm.base, nm.n + j) \in taken
    IN  Name(nm.base, nm.n + k)

Result(fs, val, node) == [fs |-> fs, val |-> val, node |-> node]

\* ------------------------------------------------- Permission Engine (spec)
\* readable that looks at the node's own grant only.
FilesystemPermissions_readable_own_grant(fs, n, u) ==
    n \in Nodes(fs) /\ fs.perms[n][u].r

\* A path that resolves to no node grants nothing: every evaluation on it is
\* a denial (the facade's callers cannot tell "does not exist" from "access
\* denied").
\* readable: read granted on the node and on every ancestor up to the root.
FilesystemPermissions_readable(fs, n, u) ==
    /\ n \in Nodes(fs)
    /\ \A m \in {n} \cup Ancestors(fs, n) : fs.perms[m][u].r

\* writable_self: the node grants write and its parent grants propagate.
FilesystemPermissions_writable_self(fs, n, u) ==
    /\ n \in Nodes(fs)
    /\ fs.perms[n][u].w
    /\ fs.parent[n] \in Nodes(fs) => fs.perms[fs.parent[n]][u].x

\* writable: entries may be made directly inside the node.
FilesystemPermissions_writable(fs, n, u) ==
    n \in Nodes(fs) /\ fs.perms[n][u].w /\ fs.perms[n][u].x

\* writable_all: writable_self on the node and on every descendant.
FilesystemPermissions_writable_all(fs, n, u) ==
    /\ n \in Nodes(fs)
    /\ \A m \in Subtree(fs, n) : FilesystemPermissions_writable_self(fs, m, u)

FilesystemPermissions_read_writable(fs, n, u) ==
    FilesystemPermissions_readable(fs, n, u) /\ FilesystemPermissions_writable(fs, n, u)

FilesystemPermissions_read_writable_all(fs, n, u) ==
    FilesystemPermissions_readable(fs, n, u) /\ FilesystemPermissions_writable_all(fs, n, u)

\* copy_reown on the result of a completed copy or move: the whole subtree of
\* the result is credited to the user.
FilesystemPermissions_copy_reown(fs, node, u) ==
    [fs EXCEPT !.owner =
        [m \in Nodes(fs) |-> IF m \in Subtree(fs, node) THEN u ELSE fs.owner[m]]]

\* ------------------------------------------------------ Tree Engine (spec)
NewPerms == [u \in Users |-> NoPerm]

AddNode(fs, id, parent, nm, owner, perms) ==
    [parent |-> [m \in Nodes(fs) \cup {id} |-> IF m = id THEN parent ELSE fs.parent[m]],
     name   |-> [m \in Nodes(fs) \cup {id} |-> IF m = id THEN nm ELSE fs.name[m]],
     owner  |-> [m \in Nodes(fs) \cup {id} |-> IF m = id THEN owner ELSE fs.owner[m]],
     perms  |-> [m \in Nodes(fs) \cup {id} |-> IF m = id THEN perms ELSE fs.perms[m]]]

Restrict(fs, keep) ==
    [parent |-> [m \in keep |-> fs.parent[m]],
     name   |-> [m \in keep |-> fs.name[m]],
     owner  |-> [m \in keep |-> fs.owner[m]],
     perms  |-> [m \in keep |-> fs.perms[m]]]

NameTaken(fs, parent, nm) == \E m \in Children(fs, parent) : fs.name[m] = nm

NewId(fs) == CHOOSE i \in FreeIds(fs) : \A j \in FreeIds(fs) : i <= j

\* create_file / create_directory: a new entry under `parent`; fails when the
\* name collides with an existing sibling.
Filesystem_create(fs, parent, nm, owner) ==
    IF parent \notin Nodes(fs) \/ NameTaken(fs, parent, nm) \/ FreeIds(fs) = {}
    THEN Result(fs, "False", NoNode)
    ELSE Result(AddNode(fs, NewId(fs), parent, nm, owner, NewPerms),
                "Node", NewId(fs))

Filesystem_create_file(fs, parent, nm, owner) ==
    Filesystem_create(fs, parent, nm, owner)

Filesystem_create_directory(fs, parent, nm, owner) ==
    Filesystem_create(fs, parent, nm, owner)

\* What the engines do where neither the specification nor the facade says:
\*   self_copy  - a copy into the source's own subtree is rejected, or gives
\*                the bounded result (one clone of the subtree as it was);
\*   collision  - a clone whose name is taken under the target gets a free
\*                name, or the copy is rejected;
\*   reown_none - copy_reown handed None for a node returns, or raises.
\* Each call may meet any of them.
EngineChoices ==
    [self_copy : {"reject", "clone"}, collision : {"rename", "reject"},
     reown_none : {"return", "raise"}]

\* copy_with_handle: deep clone of the subtree of `source` under
\* `target_parent`.  The facade's copy may have the source's own folder as
\* destination, where the source's name is taken: the clone then bears
\* another name.  The clone keeps the owners of its originals unless
\* new_owner is given.
Filesystem_copy_with_handle(fs, source, target_parent, new_owner, e) ==
    LET S    == Subtree(fs, source)
        F    == FreeIds(fs)
        img  == [m \in S |-> CHOOSE i \in F : Rank(i, F) = Rank(m, S)]
        New  == {img[m] : m \in S}
        orig(i) == CHOOSE m \in S : img[m] = i
        All  == Nodes(fs) \cup New
    IN  IF \/ source \notin Nodes(fs) \/ target_parent \notin Nodes(fs)
           \/ Cardinality(F) < Cardinality(S)
           \/ target_parent \in S /\ e.self_copy = "reject"
           \/ /\ NameTaken(fs, target_parent, fs.name[source])
              /\ target_parent # fs.parent[source]
              /\ e.collision = "reject"
        THEN Result(fs, None, NoNode)
        ELSE Result(
            [parent |-> [i \in All |-> IF i \notin New THEN fs.parent[i]
                                       ELSE IF orig(i) = source THEN target_parent
                                       ELSE img[fs.parent[orig(i)]]],
             name   |-> [i \in All |-> IF i \notin New THEN fs.name[i]
                                       ELSE IF orig(i) = source
                                            THEN FreshName(fs, target_parent, fs.name[source])
                                       ELSE fs.name[orig(i)]],
             owner  |-> [i \in All |-> IF i \notin New THEN fs.owner[i]
                                       ELSE IF new_owner # None THEN new_owner
                                       ELSE fs.owner[orig(i)]],
             perms  |-> [i \in All |-> IF i \notin New THEN fs.perms[i]
                                       ELSE fs.perms[orig(i)]]],
            "Node", img[source])

\* move_with_handle: relinks `source` under `target_parent`.  A move into the
\* source itself or into a descendant of it is rejected (the root, of which
\* every node is a descendant, cannot be moved at all); so is a move to where
\* the source's name is taken, a sibling name collision, which includes the
\* source's own folder ("destination should not at all be the same as
\* source folder, otherwise operation would not be executed").
Filesystem_move_with_handle(fs, source, target_parent) ==
    IF \/ source \notin Nodes(fs) \/ target_parent \notin Nodes(fs)
       \/ target_parent \in Subtree(fs, source)
       \/ NameTaken(fs, target_parent, fs.name[source])
    THEN Result(fs, None, NoNode)
    ELSE Result([fs EXCEPT !.parent[source] = target_parent], "Node", source)

\* remove: deletes the whole subtree; removing the root is disallowed.
Filesystem_remove(fs, path) ==
    IF path \notin Nodes(fs) \/ path = Root
    THEN Result(fs, "False", NoNode)
    ELSE Result(Restrict(fs, Nodes(fs) \ Subtree(fs, path)), "True", NoNode)

\* rename: fails on a collision with an existing sibling.
Filesystem_rename(fs, path, nm) ==
    IF \/ path \notin Nodes(fs)
       \/ \E m \in Children(fs, fs.parent[path]) : m # path /\ fs.name[m] = nm
    THEN Result(fs, "False", NoNode)
    ELSE Result([fs EXCEPT !.name[path] = nm], "True", NoNode)

\* change_ownership: recursive over the subtree.
Filesystem_change_ownership(fs, path, owner) ==
    IF path \notin Nodes(fs) THEN Result(fs, "False", NoNode)
    ELSE Result([fs EXCEPT !.owner =
                    [m \in Nodes(fs) |-> IF m \in Subtree(fs, path) THEN owner
                                         ELSE fs.owner[m]]],
                "True", NoNode)

\* change_permissions: sets the triple of the users named in `permissions`,
\* on the node, or on its whole subtree when recursive.
Filesystem_change_permissions(fs, path, permissions, recursive) ==
    LET hit == IF recursive THEN Subtree(fs, path) ELSE {path}
    IN  IF path \notin Nodes(fs) THEN Result(fs, "False", NoNode)
        ELSE Result([fs EXCEPT !.perms =
                        [m \in Nodes(fs) |->
                            IF m \notin hit THEN fs.perms[m]
                            ELSE [u \in Users |->
                                     IF u \in DOMAIN permissions THEN permissions[u]
                                     ELSE fs.perms[m][u]]]],
                    "True", NoNode)

\* expunge_user_ownership that gives each node the owner its parent had before
\* the call.
Filesystem_expunge_user_ownership_stale_parent(fs, handle) ==
    Result([fs EXCEPT !.owner =
               [m \in Nodes(fs) |->
                   IF fs.owner[m] = handle /\ fs.parent[m] \in Nodes(fs)
                   THEN fs.owner[fs.parent[m]] ELSE fs.owner[m]]],
           "True", NoNode)

\* The owner of `n` once `handle` is expunged: a node owned by `handle` takes
\* the current owner of its parent, the parent having been dealt with first;
\* that is the owner of the nearest ancestor not owned by `handle`.  Where
\* the whole chain up to the root is owned by `handle` there is no owner to
\* take.
ExpungedOwner(fs, handle, n) ==
    LET keep == {m \in Ancestors(fs, n) : fs.owner[m] # handle}
        near == CHOOSE m \in keep : \A k \in keep :
                    Cardinality(Ancestors(fs, k)) <= Cardinality(Ancestors(fs, m))
    IN  IF fs.owner[n] # handle \/ keep = {} THEN fs.owner[n] ELSE fs.owner[near]

\* expunge_user_ownership: every node owned by `handle` goes to the current
\* owner of its parent.
Filesystem_expunge_user_ownership(fs, handle) ==
    Result([fs EXCEPT !.owner = [m \in Nodes(fs) |-> ExpungedOwner(fs, handle, m)]],
           "True", NoNode)

\* list_directory: the immediate children (none for a path that resolves to
\* no node).
Filesystem_list_directory(fs, path) == Children(fs, path)

\* get_content: the content of the file; a failure for a path that does not
\* resolve.
Filesystem_get_content(fs, path) ==
    IF path \notin Nodes(fs) THEN Result(fs, "False", NoNode)
    ELSE Result(fs, "Content", path)

\* ------------------------------------------------------------ facade: calls
\* A call of a facade function: its name and arguments.  Paths are given by
\* the node they resolve to, but for get_file_name, which takes the path as
\* text and resolves nothing.
Frame(op, path, target, nm, owner, permissions, recursive, mode, user) ==
    [op |-> op, path |-> path, target |-> target, name |-> nm, owner |-> owner,
     permissions |-> permissions, recursive |-> recursive, mode |-> mode,
     user |-> user, granted |-> TRUE, text |-> <<>>]

NoFrame == Frame("none", NoNode, NoNode, NoName, None, <<>>, FALSE, "", None)

\* What a call returned: the value, the node it names (if any), the entries
\* of a listing, the file name extracted from a path, whether the Tree
\* Engine was invoked on the way, and what copy_reown was called on ("none"
\* when it was not called).
NoRet == [val |-> "none", node |-> NoNode, items |-> {}, name |-> <<>>,
          delegated |-> FALSE, reown |-> "none"]
Ret(val, node, delegated) ==
    [val |-> val, node |-> node, items |-> {}, name |-> <<>>, delegated |-> delegated,
     reown |-> "none"]

NoTree == [parent |-> <<>>, name |-> <<>>, owner |-> <<>>, perms |-> <<>>]

UserArgs == Users \cup {None}

PermissionInputs == {u :> p : u \in Users, p \in PermInputs}

\* The calls a caller may make.  A path argument is any path: one that
\* resolves to a node of the tree as it is when the function gets the lock,
\* or one that resolves to none (never made, or removed by a call that held
\* the lock in between).
Calls(fs) ==
    LET N == Ids
        P(op) == {Frame(op, n, NoNode, NoName, None, <<>>, FALSE, "", u) :
                      n \in N, u \in UserArgs}
    IN
    {Frame("create_file_handle", NoNode, NoNode, NoName, None, <<>>, FALSE, m, None) :
        m \in {"read", "write"}}
    \cup {Frame(op, n, NoNode, nm, None, <<>>, FALSE, "", u) :
            op \in {"create_file", "create_directory"},
            n \in {x \in N : FreeIds(fs) # {}}, nm \in NameInputs, u \in UserArgs}
    \cup {Frame("copy", n, m, NoName, None, <<>>, FALSE, "", u) :
            n \in {x \in N : Cardinality(Subtree(fs, x)) <= Cardinality(FreeIds(fs))},
            m \in N, u \in UserArgs}
    \cup {Frame("move", n, m, NoName, None, <<>>, FALSE, "", u) :
            n \in N, m \in N, u \in UserArgs}
    \cup P("remove")
    \cup {Frame("rename", n, NoNode, nm, None, <<>>, FALSE, "", u) :
            n \in N, nm \in NameInputs, u \in UserArgs}
    \cup {Frame("change_ownership", n, NoNode, NoName, h, <<>>, FALSE, "", u) :
            n \in N, h \in Handles, u \in UserArgs}
    \cup {Frame("change_permissions", n, NoNode, NoName, None, q, r, "", u) :
            n \in N, q \in PermissionInputs, r \in BOOLEAN, u \in UserArgs}
    \cup {Frame("expunge_user_ownership", NoNode, NoNode, NoName, h, <<>>, FALSE, "", None) :
            h \in Handles}
    \cup P("list_directory") \cup P("get_content")
    \cup P("readable") \cup P("writable") \cup P("writable_self")

\* ----------------------------------------------- facade: permission checks
\* What each facade function requires of a user before it delegates; a call
\* without a user passes every check.
create_file_checks(fs, c) ==
    ~(c.user # None /\ ~FilesystemPermissions_writable(fs, c.path, c.user))

create_directory_checks(fs, c) ==
    ~(c.user # None /\ ~FilesystemPermissions_writable(fs, c.path, c.user))

copy_checks(fs, c) ==
    /\ ~(c.user # None /\ ~FilesystemPermissions_readable(fs, c.path, c.user))
    /\ ~(c.user # None /\ ~FilesystemPermissions_writable(fs, c.target, c.user))

\* move without its last check, the one on target_parent.
move_checks_without_target(fs, c) ==
    /\ ~(c.user # None /\ ~FilesystemPermissions_readable(fs, c.path, c.user))
    /\ ~(c.user # None /\ ~FilesystemPermissions_writable_all(fs, c.path, c.user))
    /\ ~(c.user # None /\ ~FilesystemPermissions_writable_self(fs, c.path, c.user))

move_checks(fs, c) ==
    /\ ~(c.user # None /\ ~FilesystemPermissions_readable(fs, c.path, c.user))
    /\ ~(c.user # None /\ ~FilesystemPermissions_writable_all(fs, c.path, c.user))
    /\ ~(c.user # None /\ ~FilesystemPermissions_writable_self(fs, c.path, c.user))
    /\ ~(c.user # None /\ ~FilesystemPermissions_writable(fs, c.target, c.user))

\* remove without its check of the whole subtree.
remove_checks_without_subtree(fs, c) ==
    /\ ~(c.user # None /\ ~FilesystemPermissions_readable(fs, c.path, c.user))
    /\ ~(c.user # None /\ ~FilesystemPermissions_writable_self(fs, c.path, c.user))

remove_checks(fs, c) ==
    /\ ~(c.user # None /\ ~FilesystemPermissions_readable(fs, c.path, c.user))
    /\ ~(c.user # None /\ ~FilesystemPermissions_writable_self(fs, c.path, c.user))
    /\ ~(c.user # None /\ ~FilesystemPermissions_writable_all(fs, c.path, c.user))

rename_checks(fs, c) ==
    /\ ~(c.user # None /\ ~FilesystemPermissions_read_writable(fs, c.path, c.user))
    /\ ~(c.user # None /\ ~FilesystemPermissions_writable_self(fs, c.path, c.user))

\* change_ownership that checks the node without its subtree.
change_ownership_checks_node_only(fs, c) ==
    /\ ~(c.user # None /\ ~FilesystemPermissions_read_writable(fs, c.path, c.user))
    /\ ~(c.user # None /\ ~FilesystemPermissions_writable_self(fs, c.path, c.user))

change_ownership_checks(fs, c) ==
    /\ ~(c.user # None /\ ~FilesystemPermissions_read_writable_all(fs, c.path, c.user))
    /\ ~(c.user # None /\ ~FilesystemPermissions_writable_self(fs, c.path, c.user))

\* change_permissions with the check on the node alone.
change_permissions_checks_self_only(fs, c) ==
    ~(c.user # None /\ ~FilesystemPermissions_writable_self(fs, c.path, c.user))

change_permissions_checks(fs, c) ==
    /\ ~(c.user # None /\ ~FilesystemPermissions_read_writable_all(fs, c.path, c.user))
    /\ ~(c.user # None /\ ~FilesystemPermissions_writable_self(fs, c.path, c.user))

get_content_checks(fs, c) ==
    ~(c.user # None /\ ~FilesystemPermissions_readable(fs, c.path, c.user))

\* readable with the test `user and` left out: an absent user has no entry in
\* any permission map and is denied like any user without one.
readable_checks_without_bypass(fs, c) ==
    c.user # None /\ FilesystemPermissions_readable(fs, c.path, c.user)

readable_checks(fs, c) ==
    ~(c.user # None /\ ~FilesystemPermissions_readable(fs, c.path, c.user))

writable_checks(fs, c) ==
    ~(c.user # None /\ ~FilesystemPermissions_writable(fs, c.path, c.user))

writable_self_checks(fs, c) ==
    ~(c.user # None /\ ~FilesystemPermissions_writable_self(fs, c.path, c.user))

Checks(fs, c) ==
    CASE c.op = "create_file"        -> create_file_checks(fs, c)
      [] c.op = "create_directory"   -> create_directory_checks(fs, c)
      [] c.op = "copy"               -> copy_checks(fs, c)
      [] c.op = "move"               -> move_checks(fs, c)
      [] c.op = "remove"             -> remove_checks(fs, c)
      [] c.op = "rename"             -> rename_checks(fs, c)
      [] c.op = "change_ownership"   -> change_ownership_checks(fs, c)
      [] c.op = "change_permissions" -> change_permissions_checks(fs, c)
      [] c.op = "get_content"        -> get_content_checks(fs, c)
      [] c.op = "readable"           -> readable_checks(fs, c)
      [] c.op = "writable"           -> writable_checks(fs, c)
      [] c.op = "writable_self"      -> writable_self_checks(fs, c)
      [] OTHER                       -> TRUE

\* ---------------------------------------------- facade: the function bodies
\* Each body is what the function does once its checks are evaluated
\* (c.granted): the new tree, the returned value and the returned node.
Outcome(fs, val, node, delegated) ==
    [fs |-> fs, val |-> val, node |-> node, delegated |-> delegated,
     reown |-> "none", raised |-> FALSE]

Denied(fs) == Outcome(fs, "False", NoNode, FALSE)

Delegated(r) == Outcome(r.fs, r.val, r.node, TRUE)

\* usr_handle that is 'public' whoever calls.
usr_handle_public(c) == "public"

usr_handle(c) == IF c.user # None THEN c.user ELSE "public"

create_file_body(fs, c) ==
    IF ~c.granted THEN Denied(fs)
    ELSE Delegated(Filesystem_create_file(fs, c.path, c.name, usr_handle(c)))

create_directory_body(fs, c) ==
    IF ~c.granted THEN Denied(fs)
    ELSE Delegated(Filesystem_create_directory(fs, c.path, c.name, usr_handle(c)))

\* The last lines of copy and move: copy_reown(ret_result, user) when a user is
\* passed, whatever ret_result is, then release and the boolean.  With
\* ret_result None nothing says what copy_reown does; if it raises, the
\* exception leaves the function before release().
Reown(r, c, e) ==
    IF c.user = None
    THEN Outcome(r.fs, IF r.val # None THEN "True" ELSE "False", r.node, TRUE)
    ELSE IF r.val # None
    THEN [Outcome(FilesystemPermissions_copy_reown(r.fs, r.node, c.user),
                  "True", r.node, TRUE) EXCEPT !.reown = "Node"]
    ELSE [Outcome(r.fs, "False", r.node, TRUE) EXCEPT
             !.reown = "None", !.raised = (e.reown_none = "raise")]

\* copy without the reassignment of ownership.
copy_body_without_reown(fs, c, e) ==
    IF ~c.granted THEN Denied(fs)
    ELSE LET ret_result == Filesystem_copy_with_handle(fs, c.path, c.target, None, e)
         IN  Outcome(ret_result.fs, IF ret_result.val # None THEN "True" ELSE "False",
                     ret_result.node, TRUE)

copy_body(fs, c, e) ==
    IF ~c.granted THEN Denied(fs)
    ELSE Reown(Filesystem_copy_with_handle(fs, c.path, c.target, None, e), c, e)

move_body(fs, c, e) ==
    IF ~c.granted THEN Denied(fs)
    ELSE Reown(Filesystem_move_with_handle(fs, c.path, c.target), c, e)

remove_body(fs, c) ==
    IF ~c.granted THEN Denied(fs) ELSE Delegated(Filesystem_remove(fs, c.path))

rename_body(fs, c) ==
    IF ~c.granted THEN Denied(fs) ELSE Delegated(Filesystem_rename(fs, c.path, c.name))

change_ownership_body(fs, c) ==
    IF ~c.granted THEN Denied(fs)
    ELSE Delegated(Filesystem_change_ownership(fs, c.path, c.owner))

change_permissions_body(fs, c) ==
    IF ~c.granted THEN Denied(fs)
    ELSE Delegated(Filesystem_change_permissions(fs, c.path, c.permissions, c.recursive))

expunge_user_ownership_body(fs, c) ==
    Delegated(Filesystem_expunge_user_ownership(fs, c.owner))

\* list_directory: the readable children, each with its 'writable' flag (set
\* only when a user is passed).
list_directory_items(fs, c) ==
    {[node |-> m,
      writable |-> IF c.user = None THEN "unset"
                   ELSE IF FilesystemPermissions_writable_self(fs, m, c.user)
                        THEN "True" ELSE "False"] :
        m \in {x \in Filesystem_list_directory(fs, c.path) :
                  ~(c.user # None /\ ~FilesystemPermissions_readable(fs, x, c.user))}}

probe_body(fs, c) == Outcome(fs, IF c.granted THEN "True" ELSE "False", NoNode, FALSE)

\* ------------------------------------------------- facade: get_file_name
\* A path as text: a sequence of characters, "/" the delimiter.
PathChars == {"/", "a", "b"}

Paths == UNION {[1 .. n -> PathChars] : n \in 0 .. MaxPathLen}

\* str.split('/'): the pieces between the slashes, empty pieces included;
\* one piece more than there are slashes.
RECURSIVE str_split(_)
str_split(s) ==
    IF s = <<>> THEN << <<>> >>
    ELSE LET rest == str_split(Tail(s)) IN
         IF Head(s) = "/" THEN << <<>> >> \o rest
         ELSE << <<Head(s)>> \o Head(rest) >> \o Tail(rest)

\* The place of the first element of l equal to x, 0 if there is none.
list_index(l, x) ==
    IF \E i \in 1 .. Len(l) : l[i] = x
    THEN CHOOSE i \in 1 .. Len(l) : l[i] = x /\ \A j \in 1 .. (i - 1) : l[j] # x
    ELSE 0

\* list.remove(x): drops the first element equal to x (ValueError if there
\* is none, see get_file_name_body).
list_remove(l, x) ==
    SubSeq(l, 1, list_index(l, x) - 1) \o SubSeq(l, list_index(l, x) + 1, Len(l))

\* get_file_name: split at the slashes, remove the first empty piece, put an
\* empty piece in front and return the last piece.
get_file_name_body(path) ==
    LET parts == str_split(path) IN
    IF list_index(parts, <<>>) = 0
    THEN [raised |-> TRUE, name |-> <<>>]
    ELSE LET l == << <<>> >> \o list_remove(parts, <<>>)
         IN  [raised |-> FALSE, name |-> l[Len(l)]]

\* --------------------------------------------------------------- the state
InitFilesystem ==
    [parent |-> (0 :> NoNode) @@ (1 :> 0) @@ (2 :> 1) @@ (3 :> 2),
     name   |-> (0 :> NoName) @@ (1 :> Name("a", 0)) @@ (2 :> Name("b", 0))
                @@ (3 :> Name("a", 0)),
     owner  |-> (0 :> "public") @@ (1 :> "u2") @@ (2 :> "u2") @@ (3 :> "public"),
     perms  |-> [n \in 0 .. 3 |-> [u \in Users |-> FullPerm]]]

Init ==
    /\ Filesystem = InitFilesystem
    /\ FilesystemLock = Free
    /\ pc = [t \in Threads |-> "idle"]
    /\ frame = [t \in Threads |-> NoFrame]
    /\ ret = [t \in Threads |-> NoRet]
    /\ pre = [t \in Threads |-> NoTree]
    /\ calls = 0

\* ------------------------------------------------------------- the actions
\* A thread enters a facade function.  Its arguments are fixed here, but the
\* first statement of every function is FilesystemLock.acquire() and nothing
\* reads them before it returns; the paths are resolved by the engines, on
\* the tree as it is under the lock.  The arguments are drawn from a set that
\* does not depend on the tree (any path, resolving or not), so they enter
\* the model where they are first read (see check): a caller that waited may
\* find that its path resolves to nothing.
Call(t) ==
    /\ pc[t] = "idle"
    /\ calls < MaxCalls
    /\ pc' = [pc EXCEPT ![t] = "waiting"]
    /\ calls' = calls + 1
    /\ UNCHANGED <<Filesystem, FilesystemLock, frame, ret, pre>>

\* threading.Lock.acquire(): blocks while the lock is held.
\* A lock whose acquire() never blocks.
Lock_never_blocks == TRUE

Lock_free == FilesystemLock = Free

acquire(t) ==
    /\ pc[t] = "waiting"
    /\ Lock_free
    /\ FilesystemLock' = t
    /\ pc' = [pc EXCEPT ![t] = "locked"]
    /\ UNCHANGED <<Filesystem, frame, ret, pre, calls>>

\* The permission checks of the function entered, on its arguments, which
\* may name a node of the tree or none.
check(t) ==
    /\ pc[t] = "locked"
    /\ \E c \in Calls(Filesystem) :
          frame' = [frame EXCEPT ![t] = [c EXCEPT !.granted = Checks(Filesystem, c)]]
    /\ pre' = [pre EXCEPT ![t] = Filesystem]
    /\ pc' = [pc EXCEPT ![t] = "checked"]
    /\ UNCHANGED <<Filesystem, FilesystemLock, ret, calls>>

\* FilesystemLock.release() and return.
Finish(t, fs, r) ==
    /\ Filesystem' = fs
    /\ FilesystemLock' = Free
    /\ ret' = [ret EXCEPT ![t] = r]
    /\ pc' = [pc EXCEPT ![t] = "done"]
    /\ UNCHANGED <<frame, pre, calls>>

\* An exception leaves the function; lock' is the lock as the raise found
\* it, r what the call had done by then.
RaiseIn(t, lock, r) ==
    /\ FilesystemLock' = lock
    /\ ret' = [ret EXCEPT ![t] = r]
    /\ pc' = [pc EXCEPT ![t] = "raised"]
    /\ UNCHANGED <<Filesystem, frame, pre, calls>>

Raise(t, lock) == RaiseIn(t, lock, Ret("raised", NoNode, FALSE))

At(t, op) == pc[t] = "checked" /\ frame[t].op = op

Body(t, b) ==
    IF b.raised
    THEN RaiseIn(t, FilesystemLock,
                 [Ret("raised", b.node, b.delegated) EXCEPT !.reown = b.reown])
    ELSE Finish(t, b.fs, [Ret(b.val, b.node, b.delegated) EXCEPT !.reown = b.reown])

\* The module imports file_storage, file_system and file_system_permissions,
\* not file_stream: the name resolves only if the submodule has been imported
\* by other code by the time the function runs, and raises NameError if not.
file_stream == BOOLEAN

create_file_handle(t) ==
    /\ At(t, "create_file_handle")
    /\ \E bound \in file_stream :
          IF bound THEN Finish(t, Filesystem, Ret("Stream", NoNode, FALSE))
          ELSE Raise(t, FilesystemLock)

create_file(t) ==
    At(t, "create_file") /\ Body(t, create_file_body(Filesystem, frame[t]))

create_directory(t) ==
    At(t, "create_directory") /\ Body(t, create_directory_body(Filesystem, frame[t]))

copy(t) ==
    At(t, "copy") /\ \E e \in EngineChoices : Body(t, copy_body(Filesystem, frame[t], e))

move(t) ==
    At(t, "move") /\ \E e \in EngineChoices : Body(t, move_body(Filesystem, frame[t], e))

remove(t) == At(t, "remove") /\ Body(t, remove_body(Filesystem, frame[t]))

rename(t) == At(t, "rename") /\ Body(t, rename_body(Filesystem, frame[t]))

change_ownership(t) ==
    At(t, "change_ownership") /\ Body(t, change_ownership_body(Filesystem, frame[t]))

change_permissions(t) ==
    At(t, "change_permissions") /\ Body(t, change_permissions_body(Filesystem, frame[t]))

expunge_user_ownership(t) ==
    /\ At(t, "expunge_user_ownership")
    /\ Body(t, expunge_user_ownership_body(Filesystem, frame[t]))

list_directory(t) ==
    /\ At(t, "list_directory")
    /\ Finish(t, Filesystem,
              [Ret("List", NoNode, TRUE) EXCEPT
                  !.items = list_directory_items(Filesystem, frame[t])])

get_content(t) ==
    /\ At(t, "get_content")
    /\ IF ~frame[t].granted
       THEN \E bound \in file_stream :
               IF bound
               THEN Finish(t, Filesystem, Ret("EmptyFileStream", NoNode, FALSE))
               ELSE Raise(t, Free)
       ELSE Body(t, Delegated(Filesystem_get_content(Filesystem, frame[t].path)))

readable(t) == At(t, "readable") /\ Body(t, probe_body(Filesystem, frame[t]))

writable(t) == At(t, "writable") /\ Body(t, probe_body(Filesystem, frame[t]))

writable_self(t) == At(t, "writable_self") /\ Body(t, probe_body(Filesystem, frame[t]))

\* get_file_name takes no lock and reads no tree: it runs from entry to return
\* (or to the ValueError of list.remove) on its argument alone.
get_file_name(t) ==
    /\ pc[t] = "idle"
    /\ \E path \in Paths :
          LET b == get_file_name_body(path) IN
          /\ frame' = [frame EXCEPT ![t] =
                           [NoFrame EXCEPT !.op = "get_file_name", !.text = path]]
          /\ ret' = [ret EXCEPT ![t] =
                         IF b.raised THEN Ret("raised", NoNode, FALSE)
                         ELSE [Ret("Name", NoNode, FALSE) EXCEPT !.name = b.name]]
          /\ pc' = [pc EXCEPT ![t] = IF b.raised THEN "raised" ELSE "done"]
    /\ UNCHANGED <<Filesystem, FilesystemLock, pre, calls>>

\* The caller takes the result (or the exception) and goes on.
Return(t) ==
    /\ pc[t] \in {"done", "raised"}
    /\ pc' = [pc EXCEPT ![t] = "idle"]
    /\ frame' = [frame EXCEPT ![t] = NoFrame]
    /\ ret' = [ret EXCEPT ![t] = NoRet]
    /\ pre' = [pre EXCEPT ![t] = NoTree]
    /\ UNCHANGED <<Filesystem, FilesystemLock, calls>>

Step(t) ==
        \/ Call(t)
        \/ acquire(t)
        \/ check(t)
        \/ create_file_handle(t)
        \/ create_file(t)
        \/ create_directory(t)
        \/ copy(t)
        \/ move(t)
        \/ remove(t)
        \/ rename(t)
        \/ change_ownership(t)
        \/ change_permissions(t)
        \/ expunge_user_ownership(t)
        \/ list_directory(t)
        \/ get_content(t)
        \/ readable(t)
        \/ writable(t)
        \/ writable_self(t)
        \/ Return(t)

\* Any number of concurrent callers.
Next == \E t \in Threads : Step(t)

Spec == Init /\ [][Next]_vars

\* One caller, one call after the other.
NextSeq == Step("t1")

SpecSeq == Init /\ [][NextSeq]_vars

\* get_file_name, called at any moment beside callers that enter the other
\* functions and take the lock.
NextName == \E t \in Threads : Call(t) \/ acquire(t) \/ get_file_name(t) \/ Return(t)

SpecName == Init /\ [][NextName]_vars

\* ===================================================================== C1
\* C1: once a facade call has ended, in whatever way (a returned result, a
\* denial, or an exception raised inside it), the caller does not hold
\* FilesystemLock.
C1_LockNotHeldAfterCall ==
    \A t \in Threads : pc[t] \in {"idle", "done", "raised"} => FilesystemLock # t

\* ===================================================================== C2
\* C2: at most one caller is between acquire() and release(), and from the
\* moment a call's permission checks are evaluated until its own mutation
\* the tree is the one the checks read: the decision it acts on is the
\* decision the Permission Engine gives on the current tree.
Holding(t) == pc[t] \in {"locked", "checked"}

C2_CheckThenActAtomic ==
    /\ \A t1, t2 \in Threads : Holding(t1) /\ Holding(t2) => t1 = t2
    /\ \A t \in Threads : Holding(t) => FilesystemLock = t
    /\ \A t \in Threads :
          pc[t] = "checked" =>
              /\ pre[t] = Filesystem
              /\ frame[t].granted = Checks(Filesystem, frame[t])

\* A user's move has passed its checks and holds the lock while the other
\* caller is blocked in acquire().
C2_Witness ==
    \E t1, t2 \in Threads :
        /\ t1 # t2
        /\ pc[t1] = "checked" /\ frame[t1].op = "move" /\ frame[t1].user # None
        /\ frame[t1].granted
        /\ pc[t2] = "waiting"

\* ===================================================================== C3
\* C3: no caller is blocked forever on FilesystemLock.  The lock is released
\* only by a thread that is inside a facade function, so a caller waiting in
\* acquire() gets through only if, whenever no thread is inside one, the lock
\* is free.
C3_WaitingCallerGetsLock ==
    \A t \in Threads :
        (pc[t] = "waiting" /\ \A t2 \in Threads : ~Holding(t2)) => FilesystemLock = Free

\* ==================================================================== C10
\* C10: create_file_handle always succeeds: it ends by returning a stream,
\* with the tree as it was and the lock free.
C10_CreateFileHandleSucceeds ==
    \A t \in Threads :
        pc[t] \in {"done", "raised"} /\ frame[t].op = "create_file_handle" =>
            /\ ret[t].val = "Stream"
            /\ FilesystemLock # t

\* ===================================================================== C4
\* The permissions each mutating operation requires of a user.
MutatingOps == {"create_file", "create_directory", "copy", "move", "remove",
                "rename", "change_ownership", "change_permissions"}

C4_Required(fs, c) ==
    CASE c.op \in {"create_file", "create_directory"} ->
            FilesystemPermissions_writable(fs, c.path, c.user)
      [] c.op = "copy" ->
            /\ FilesystemPermissions_readable(fs, c.path, c.user)
            /\ FilesystemPermissions_writable(fs, c.target, c.user)
      [] c.op = "move" ->
            /\ FilesystemPermissions_readable(fs, c.path, c.user)
            /\ FilesystemPermissions_writable_all(fs, c.path, c.user)
            /\ FilesystemPermissions_writable_self(fs, c.path, c.user)
            /\ FilesystemPermissions_writable(fs, c.target, c.user)
      [] c.op = "remove" ->
            /\ FilesystemPermissions_readable(fs, c.path, c.user)
            /\ FilesystemPermissions_writable_self(fs, c.path, c.user)
            /\ FilesystemPermissions_writable_all(fs, c.path, c.user)
      [] c.op = "rename" ->
            /\ FilesystemPermissions_read_writable(fs, c.path, c.user)
            /\ FilesystemPermissions_writable_self(fs, c.path, c.user)
      [] c.op \in {"change_ownership", "change_permissions"} ->
            /\ FilesystemPermissions_read_writable_all(fs, c.path, c.user)
            /\ FilesystemPermissions_writable_self(fs, c.path, c.user)

\* C4: a mutating operation called with a user who fails one of its required
\* permission checks returns False without invoking the Tree Engine, and the
\* whole tree (structure, owners, permission maps) is as before the call.
C4_DeniedLeavesTreeUnchanged ==
    \A t \in Threads :
        (/\ pc[t] = "done"
         /\ frame[t].op \in MutatingOps
         /\ frame[t].user # None
         /\ ~C4_Required(pre[t], frame[t]))
        => /\ ret[t].val = "False"
           /\ ~ret[t].delegated
           /\ Filesystem = pre[t]

\* A recursive change_permissions on a directory with descendants, by a user
\* who fails its checks, has returned.
C4_Witness ==
    \E t \in Threads :
        /\ pc[t] = "done" /\ frame[t].op = "change_permissions"
        /\ frame[t].recursive /\ frame[t].user # None
        /\ Cardinality(Subtree(pre[t], frame[t].path)) >= 2
        /\ ~C4_Required(pre[t], frame[t])
        /\ ret[t].val = "False"

\* ===================================================================== C5
\* C5: remove(path, U) returns False and changes nothing whenever some
\* descendant of path denies writable_self to U, and it reaches the Tree
\* Engine only when readable, writable_self and writable_all hold on path.
C5_RemoveNeedsWholeSubtree ==
    \A t \in Threads :
        (pc[t] = "done" /\ frame[t].op = "remove" /\ frame[t].user # None) =>
        LET fs == pre[t]  p == frame[t].path  u == frame[t].user IN
        /\ (\E d \in Subtree(fs, p) \ {p} :
                ~FilesystemPermissions_writable_self(fs, d, u))
           => (ret[t].val = "False" /\ ~ret[t].delegated /\ Filesystem = fs)
        /\ ret[t].delegated =>
              /\ FilesystemPermissions_readable(fs, p, u)
              /\ FilesystemPermissions_writable_self(fs, p, u)
              /\ FilesystemPermissions_writable_all(fs, p, u)

\* A remove was refused although the path itself is readable and
\* self-writable and all its descendants but one grant writable_self.
C5_Witness ==
    \E t \in Threads :
        /\ pc[t] = "done" /\ frame[t].op = "remove" /\ frame[t].user # None
        /\ LET fs == pre[t]  p == frame[t].path  u == frame[t].user
               D == Subtree(fs, p) \ {p} IN
           /\ Cardinality(D) >= 2
           /\ FilesystemPermissions_readable(fs, p, u)
           /\ FilesystemPermissions_writable_self(fs, p, u)
           /\ Cardinality({d \in D : ~FilesystemPermissions_writable_self(fs, d, u)}) = 1
        /\ ret[t].val = "False"

\* ===================================================================== C6
C6_AllFour(fs, c) ==
    /\ FilesystemPermissions_readable(fs, c.path, c.user)
    /\ FilesystemPermissions_writable_all(fs, c.path, c.user)
    /\ FilesystemPermissions_writable_self(fs, c.path, c.user)
    /\ FilesystemPermissions_writable(fs, c.target, c.user)

\* C6: move(source, target_parent, U) relinks only if readable(source),
\* writable_all(source), writable_self(source) and writable(target_parent)
\* all hold when it is called; if one of them fails it returns False and
\* the tree is unchanged.
C6_MoveNeedsAllFour ==
    \A t \in Threads :
        (pc[t] = "done" /\ frame[t].op = "move" /\ frame[t].user # None) =>
        /\ ~C6_AllFour(pre[t], frame[t]) => (ret[t].val = "False" /\ Filesystem = pre[t])
        /\ Filesystem # pre[t] => C6_AllFour(pre[t], frame[t])

\* A move was refused on the last check alone: the three checks on the
\* source hold, the target parent is not writable.
C6_Witness ==
    \E t \in Threads :
        /\ pc[t] = "done" /\ frame[t].op = "move" /\ frame[t].user # None
        /\ LET fs == pre[t]  c == frame[t] IN
           /\ FilesystemPermissions_readable(fs, c.path, c.user)
           /\ FilesystemPermissions_writable_all(fs, c.path, c.user)
           /\ FilesystemPermissions_writable_self(fs, c.path, c.user)
           /\ ~FilesystemPermissions_writable(fs, c.target, c.user)
        /\ ret[t].val = "False"

\* ===================================================================== C7
\* C7: after copy or move returns True for a user U, the subtree that now
\* hangs under target_parent is owned by U in every node; a copy leaves the
\* owners of the source subtree as they were.
C7_ResultOwnedByUser ==
    \A t \in Threads :
        (/\ pc[t] = "done" /\ frame[t].op \in {"copy", "move"}
         /\ frame[t].user # None /\ ret[t].val = "True") =>
        LET c == frame[t]  new == Nodes(Filesystem) \ Nodes(pre[t]) IN
        IF c.op = "move"
        THEN /\ Filesystem.parent[c.path] = c.target
             /\ \A m \in Subtree(Filesystem, c.path) : Filesystem.owner[m] = c.user
        ELSE /\ \E r \in new : /\ Filesystem.parent[r] = c.target
                               /\ new = Subtree(Filesystem, r)
             /\ Cardinality(new) = Cardinality(Subtree(pre[t], c.path))
             /\ \A m \in new : Filesystem.owner[m] = c.user
             /\ \A m \in Subtree(pre[t], c.path) : Filesystem.owner[m] = pre[t].owner[m]

\* A user has copied a subtree of several nodes none of which was theirs.
C7_Witness ==
    \E t \in Threads :
        /\ pc[t] = "done" /\ frame[t].op = "copy" /\ frame[t].user # None
        /\ ret[t].val = "True"
        /\ Cardinality(Subtree(pre[t], frame[t].path)) >= 2
        /\ \A m \in Subtree(pre[t], frame[t].path) : pre[t].owner[m] # frame[t].user

C11_DeniedGetContentReturnsSentinel ==
    \A t \in Threads :
        (/\ pc[t] \in {"done", "raised"} /\ frame[t].op = "get_content"
         /\ frame[t].user # None
         /\ ~FilesystemPermissions_readable(pre[t], frame[t].path, frame[t].user))
        => /\ pc[t] = "done"
           /\ ret[t].val = "EmptyFileStream"
           /\ ~ret[t].delegated
           /\ FilesystemLock # t

\* ==================================================================== C12
\* What a caller can read and write: a call without a user is denied nothing.
C12_CanRead(fs, n, u) == u = None \/ FilesystemPermissions_readable(fs, n, u)

C12_CanWriteSelf(fs, n, u) == u = None \/ FilesystemPermissions_writable_self(fs, n, u)

\* C12: list_directory(path, user), for every caller, the one without a user
\* included, returns exactly the immediate children of path that the caller
\* can read, and every entry returned carries a 'writable' flag equal to
\* writable_self of that child for the caller.
C12_ListingReadableWithWritableFlag ==
    \A t \in Threads :
        (pc[t] = "done" /\ frame[t].op = "list_directory") =>
        LET fs == pre[t]  c == frame[t] IN
        /\ {i.node : i \in ret[t].items}
              = {m \in Children(fs, c.path) : C12_CanRead(fs, m, c.user)}
        /\ \A i \in ret[t].items :
              i.writable = IF C12_CanWriteSelf(fs, i.node, c.user) THEN "True" ELSE "False"

\* ==================================================================== C13
\* C13: a call without a user is never denied and never depends on the
\* permission maps: every mutating operation is handed to the Tree Engine,
\* the probes readable / writable / writable_self return True, get_content
\* reads the content and list_directory returns every child.
C13_NoUserBypassesChecks ==
    \A t \in Threads :
        (pc[t] \in {"done", "raised"} /\ frame[t].user = None
         /\ frame[t].op # "create_file_handle") =>
        /\ pc[t] = "done"
        /\ frame[t].granted
        /\ frame[t].op \in MutatingOps \cup {"expunge_user_ownership"} => ret[t].delegated
        /\ frame[t].op \in {"readable", "writable", "writable_self"} => ret[t].val = "True"
        /\ frame[t].op = "get_content" => ret[t].delegated
        /\ frame[t].op = "list_directory" =>
              {i.node : i \in ret[t].items} = Children(pre[t], frame[t].path)

\* The probe readable(path, None) has answered for a node that no user of
\* the system may read.
C13_Witness ==
    \E t \in Threads :
        /\ pc[t] = "done" /\ frame[t].op = "readable" /\ frame[t].user = None
        /\ frame[t].path \in Nodes(pre[t])
        /\ \A u \in Users : ~FilesystemPermissions_readable(pre[t], frame[t].path, u)
        /\ ret[t].val = "True"

\* ==================================================================== C14
\* C14: expunge_user_ownership(H) gives every node owned by H the current
\* owner of its parent and touches nothing else, and it is idempotent: in
\* every tree, those where a node owned by H hangs under a node owned by H
\* included, a second call with the same H right after the first changes no
\* node's owner.
C14_ExpungeIdempotent ==
    \A t \in Threads :
        (pc[t] = "done" /\ frame[t].op = "expunge_user_ownership") =>
        LET fs == pre[t]  H == frame[t].owner IN
        /\ ret[t].delegated
        /\ Nodes(Filesystem) = Nodes(fs)
        /\ Filesystem.parent = fs.parent /\ Filesystem.name = fs.name
        /\ Filesystem.perms = fs.perms
        /\ \A n \in Nodes(fs) :
              IF fs.owner[n] = H /\ fs.parent[n] \in Nodes(fs)
              THEN Filesystem.owner[n] = Filesystem.owner[fs.parent[n]]
              ELSE Filesystem.owner[n] = fs.owner[n]
        /\ expunge_user_ownership_body(Filesystem, frame[t]).fs = Filesystem

\* H has been expunged from a tree in which a node owned by H hung under a
\* node owned by H, itself under a node of another owner.
C14_Witness ==
    \E t \in Threads :
        /\ pc[t] = "done" /\ frame[t].op = "expunge_user_ownership"
        /\ \E n \in Nodes(pre[t]) :
              LET p == pre[t].parent[n] IN
              /\ p \in Nodes(pre[t]) /\ pre[t].parent[p] \in Nodes(pre[t])
              /\ pre[t].owner[n] = frame[t].owner
              /\ pre[t].owner[p] = frame[t].owner
              /\ pre[t].owner[pre[t].parent[p]] # frame[t].owner
              /\ Filesystem.owner[n] # frame[t].owner

\* ==================================================================== C15
\* Some node of S denies read to u.
C15_DeniesRead(fs, S, u) == \E a \in S \cap Nodes(fs) : ~fs.perms[a][u].r

\* C15: if an ancestor of N denies read to U, readable(N, U) is False whatever
\* N itself grants; and list_directory(P, U) returns an empty list for every
\* P that denies read to U or has an ancestor that does, even when the
\* children of P grant U read.
C15_ReadGatedByAncestors ==
    \A t \in Threads :
        (pc[t] = "done" /\ frame[t].user # None) =>
        LET fs == pre[t]  p == frame[t].path  u == frame[t].user IN
        /\ (frame[t].op = "readable" /\ C15_DeniesRead(fs, Ancestors(fs, p), u))
              => ret[t].val = "False"
        /\ (frame[t].op = "list_directory"
                /\ C15_DeniesRead(fs, {p} \cup Ancestors(fs, p), u))
              => ret[t].items = {}

\* A user has listed a directory that grants them read and whose child
\* grants them read, under an ancestor that denies it.
C15_Witness ==
    \E t \in Threads :
        /\ pc[t] = "done" /\ frame[t].op = "list_directory" /\ frame[t].user # None
        /\ LET fs == pre[t]  p == frame[t].path  u == frame[t].user IN
           /\ p \in Nodes(fs) /\ fs.perms[p][u].r
           /\ \E m \in Children(fs, p) : fs.perms[m][u].r
           /\ C15_DeniesRead(fs, Ancestors(fs, p), u)
        /\ ret[t].items = {}

\* ==================================================================== C16
C16_Gate(fs, p, u) ==
    /\ FilesystemPermissions_read_writable_all(fs, p, u)
    /\ FilesystemPermissions_writable_self(fs, p, u)

\* C16: change_permissions and change_ownership are gated alike: on every
\* tree, path and user, each is denied exactly when read_writable_all or
\* writable_self fails on the path, so one is denied exactly when the other
\* is, whatever the recursive flag.
C16_SameGating ==
    \A t \in Threads :
        (/\ pc[t] = "done" /\ frame[t].user # None
         /\ frame[t].op \in {"change_ownership", "change_permissions"}) =>
        LET fs == pre[t]  c == frame[t] IN
        /\ ret[t].delegated <=> C16_Gate(fs, c.path, c.user)
        /\ ~C16_Gate(fs, c.path, c.user) => (ret[t].val = "False" /\ Filesystem = fs)
        /\ \A r \in BOOLEAN :
              change_ownership_checks(fs, c)
                 = change_permissions_checks(fs, [c EXCEPT !.recursive = r])

\* A change_permissions of the node alone (not recursive) was denied because
\* of a descendant, the node itself being readable, writable and
\* self-writable.
C16_Witness ==
    \E t \in Threads :
        /\ pc[t] = "done" /\ frame[t].op = "change_permissions"
        /\ frame[t].user # None /\ ~frame[t].recursive
        /\ LET fs == pre[t]  c == frame[t] IN
           /\ FilesystemPermissions_read_writable(fs, c.path, c.user)
           /\ FilesystemPermissions_writable_self(fs, c.path, c.user)
           /\ ~FilesystemPermissions_writable_all(fs, c.path, c.user)
        /\ ret[t].val = "False" /\ ~ret[t].delegated

\* ==================================================================== C17
\* C17: when every permission check of a copy or move has passed and the Tree
\* Engine's copy_with_handle / move_with_handle returns no result (None), the
\* facade returns False, the reassignment of ownership is not applied to
\* the missing result, no node changes owner, the tree is as it was and the
\* lock is released.
C17_EngineFailureLeavesTree ==
    \A t \in Threads :
        (/\ pc[t] \in {"done", "raised"} /\ frame[t].op \in {"copy", "move"}
         /\ frame[t].granted
         /\ ret[t].delegated /\ ret[t].node = NoNode)
        => /\ pc[t] = "done"
           /\ ret[t].val = "False"
           /\ ret[t].reown # "None"
           /\ Filesystem.owner = pre[t].owner
           /\ Filesystem = pre[t]
           /\ FilesystemLock # t

\* ==================================================================== C18
\* The final segment of a slash-delimited path: its last piece that is not
\* empty (no piece at all for a path made of slashes only).
C18_FinalSegment(path) ==
    LET parts == str_split(path)
        I == {i \in 1 .. Len(parts) : parts[i] # <<>>}
    IN  IF I = {} THEN <<>> ELSE parts[CHOOSE i \in I : \A j \in I : j <= i]

\* C18: get_file_name(path) returns the final segment of any slash-delimited
\* path, absolute (leading slash), relative (no leading slash) or ending in
\* a slash, as a value: it does not raise, takes no lock and reads no tree.
C18_GetFileNameReturnsFinalSegment ==
    \A t \in Threads :
        (pc[t] \in {"done", "raised"} /\ frame[t].op = "get_file_name") =>
        /\ pc[t] = "done"
        /\ ret[t].name = C18_FinalSegment(frame[t].text)
        /\ FilesystemLock # t

\* ==================================================================== C19
\* C19: a node created through create_file or create_directory belongs to the
\* caller: its owner is user.handle when a user is passed and 'public' when
\* none is, and no other node changes owner.
C19_CreatedNodeOwnedByCaller ==
    \A t \in Threads :
        (/\ pc[t] = "done" /\ frame[t].op \in {"create_file", "create_directory"}
         /\ ret[t].val = "Node") =>
        LET fs == pre[t]  c == frame[t]  new == Nodes(Filesystem) \ Nodes(fs) IN
        /\ new = {ret[t].node}
        /\ Filesystem.parent[ret[t].node] = c.path
        /\ Filesystem.name[ret[t].node] = c.name
        /\ Filesystem.owner[ret[t].node] = IF c.user # None THEN c.user ELSE "public"
        /\ \A n \in Nodes(fs) : Filesystem.owner[n] = fs.owner[n]

\* A user has created a node under a directory owned by someone else.
C19_Witness ==
    \E t \in Threads :
        /\ pc[t] = "done" /\ frame[t].op \in {"create_file", "create_directory"}
        /\ frame[t].user # None /\ ret[t].val = "Node"
        /\ pre[t].owner[frame[t].path] \notin {frame[t].user, "public"}
        /\ Filesystem.owner[ret[t].node] = frame[t].user

====
